---- MODULE Spec2Model ----
(***************************************************************************)
(* A model of the CHIP-8 interpreter of fvilers/chip8.                     *)
(*                                                                         *)
(* The state is the Cpu struct of src/src/cpu.rs together with the inputs  *)
(* the host hands to it (the ROM image, the --super-chip switch) and the   *)
(* outcome of the host process (running, or the panic that ended it).      *)
(* One action models Cpu::tick (fetch, decode, execute), one Cpu::draw.    *)
(***************************************************************************)
EXTENDS Integers, Sequences, FiniteSets, TLC

VARIABLES
    ram,            \* Cpu.ram: [u8; 4096], as the map of its cells that are not 0x00
    pc,             \* Cpu.pc: u16
    i,              \* Cpu.i: u16
    stack,          \* Cpu.stack: Vec<u16>
    v,              \* Cpu.v: [u8; 16]
    vram,           \* Cpu.vram: [u8; 2048], as the map of its cells that are not 0
    vram_changed,   \* Cpu.vram_changed: bool
    super_chip,     \* Cli.super_chip, the quirk switch the host was started with
    overflow_checks,\* whether the build panics on integer overflow (debug) or wraps (release)
    rom,            \* the image main() read from the ROM file
    instruction,    \* tick(): the word returned by the last fetch
    operation,      \* tick(): the Operation returned by the last decode
    decoder,        \* which of the two decoders returned it: Cpu::decode or Operation::decode
    history,        \* what the last ticks started from, the most recent first
    should_redraw,  \* main(): what the last cpu.tick() returned
    key,            \* the input latch: << >> when empty, <<k>> when it holds key k
    input_event,    \* main(): the last call it made for a key event, and whether a key was held then
    panic           \* "none" while the host process runs, else the panic that aborted it

vars == << ram, pc, i, stack, v, vram, vram_changed, super_chip, overflow_checks,
           rom, instruction, operation, decoder, history, should_redraw, key,
           input_event, panic >>

-----------------------------------------------------------------------------
(* Program constants *)

RAM_SIZE == 4096

SCREEN_WIDTH == 64

SCREEN_HEIGHT == 32

VRAM_SIZE == SCREEN_WIDTH * SCREEN_HEIGHT

PROGRAM_START == 512

U8 == 256

U16 == 65536

(* Model bounds *)

\* Tick is disabled once the call stack holds this many entries (Vec<u16> is unbounded).
MaxStack == 18

\* The number of ticks whose starting point is remembered in history.
HistoryLen == 2

-----------------------------------------------------------------------------
(* Machine arithmetic on unsigned integers *)

RECURSIVE BitAnd(_, _)
BitAnd(a, b) ==
    IF a = 0 \/ b = 0 THEN 0
    ELSE (IF a % 2 = 1 /\ b % 2 = 1 THEN 1 ELSE 0) + 2 * BitAnd(a \div 2, b \div 2)

RECURSIVE BitOr(_, _)
BitOr(a, b) ==
    IF a = 0 THEN b
    ELSE IF b = 0 THEN a
    ELSE (IF a % 2 = 1 \/ b % 2 = 1 THEN 1 ELSE 0) + 2 * BitOr(a \div 2, b \div 2)

RECURSIVE BitXor(_, _)
BitXor(a, b) ==
    IF a = 0 THEN b
    ELSE IF b = 0 THEN a
    ELSE (IF a % 2 # b % 2 THEN 1 ELSE 0) + 2 * BitXor(a \div 2, b \div 2)

Shr(a, n) == a \div (2 ^ n)

\* u8 << n: the bits shifted past bit 7 are lost
Shl8(a, n) == (a * (2 ^ n)) % U8

\* u8::overflowing_add and u8::overflowing_sub: <<wrapped result, overflow>>
overflowing_add(a, b) == << (a + b) % U8, a + b >= U8 >>

overflowing_sub(a, b) == << (a - b) % U8, a < b >>

-----------------------------------------------------------------------------
(* Panics: the messages with which the host process can abort *)

NoPanic == "none"

PanicRomSize == "ROM size cannot be larger than 4096 bytes"

PanicIndex == "index out of bounds"

PanicOverflow == "attempt to add with overflow"

PanicUnsupported == "Unsupported instruction"

PanicEmptyStack == "Cannot pop() from an empty stack"

PanicUnimplemented == "not implemented"

PanicPixel == "Invalid pixel value"

-----------------------------------------------------------------------------
(* Decoding *)

\* (a variant with the shifts of the two middle fields exchanged)
get_nibbles_MiddleSwapped(value) ==
    << Shr(BitAnd(value, 61440), 12),
       Shr(BitAnd(value, 240), 4),
       Shr(BitAnd(value, 3840), 8),
       BitAnd(value, 15) >>

\* get_nibbles: the four 4-bit fields of a 16-bit word, most significant first
get_nibbles(value) ==
    << Shr(BitAnd(value, 61440), 12),
       Shr(BitAnd(value, 3840), 8),
       Shr(BitAnd(value, 240), 4),
       BitAnd(value, 15) >>

Op0(kind) == [kind |-> kind]

OpAddr(kind, address) == [kind |-> kind, address |-> address]

OpX(kind, x) == [kind |-> kind, x |-> x]

OpXValue(kind, x, value) == [kind |-> kind, x |-> x, value |-> value]

OpXY(kind, x, y) == [kind |-> kind, x |-> x, y |-> y]

OpXAddr(kind, x, address) == [kind |-> kind, x |-> x, address |-> address]

OpXYHeight(kind, x, y, height) == [kind |-> kind, x |-> x, y |-> y, height |-> height]

\* the result of a decode that panicked: no Operation exists
Unsupported == [kind |-> "Unsupported"]

\* The match of Cpu::decode and of Operation::decode, arm by arm and in its
\* order. The two differ in three arms: Cpu::decode's shift variants carry no y
\* (shift_without_y), and only Operation::decode reads the quirk flag at BNNN.
DecodeArms(word, n, shift_without_y, bnnn_plus_vx) ==
    IF n = <<0, 0, 14, 0>> THEN Op0("ClearScreen")
    ELSE IF n[1] = 1 THEN OpAddr("JumpTo", BitAnd(word, 4095))
    ELSE IF n[1] = 2 THEN OpAddr("CallSubroutineAt", BitAnd(word, 4095))
    ELSE IF n = <<0, 0, 14, 14>> THEN Op0("ReturnFromSubroutine")
    ELSE IF n[1] = 3 THEN
        OpXValue("SkipNextInstructionIfVXEquals", n[2], BitAnd(word, 255))
    ELSE IF n[1] = 4 THEN
        OpXValue("SkipNextInstructionIfVXNotEquals", n[2], BitAnd(word, 255))
    ELSE IF n[1] = 5 /\ n[4] = 0 THEN OpXY("SkipNextInstructionIfVXEqualsVY", n[2], n[3])
    ELSE IF n[1] = 6 THEN OpXValue("SetVXTo", n[2], BitAnd(word, 255))
    ELSE IF n[1] = 7 THEN OpXValue("AddToVX", n[2], BitAnd(word, 255))
    ELSE IF n[1] = 8 /\ n[4] = 0 THEN OpXY("SetVXToVY", n[2], n[3])
    ELSE IF n[1] = 8 /\ n[4] = 1 THEN OpXY("SetVXToVXOrVY", n[2], n[3])
    ELSE IF n[1] = 8 /\ n[4] = 2 THEN OpXY("SetVXToVXAndVY", n[2], n[3])
    ELSE IF n[1] = 8 /\ n[4] = 3 THEN OpXY("SetVXToVXXorVY", n[2], n[3])
    ELSE IF n[1] = 8 /\ n[4] = 4 THEN OpXY("AddVYToVX", n[2], n[3])
    ELSE IF n[1] = 8 /\ n[4] = 5 THEN OpXY("SubtractVYFromVX", n[2], n[3])
    ELSE IF n[1] = 8 /\ n[4] = 6 THEN
        (IF shift_without_y THEN OpX("RightShiftVX", n[2])
                            ELSE OpXY("RightShiftVX", n[2], n[3]))
    ELSE IF n[1] = 8 /\ n[4] = 7 THEN OpXY("SubtractVXFromVY", n[2], n[3])
    ELSE IF n[1] = 8 /\ n[4] = 14 THEN
        (IF shift_without_y THEN OpX("LeftShiftVX", n[2])
                            ELSE OpXY("LeftShiftVX", n[2], n[3]))
    ELSE IF n[1] = 9 /\ n[4] = 0 THEN OpXY("SkipNextInstructionIfVXNotEqualsVY", n[2], n[3])
    ELSE IF n[1] = 10 THEN OpAddr("SetITo", BitAnd(word, 4095))
    ELSE IF n[1] = 11 THEN
        (IF bnnn_plus_vx THEN OpXAddr("JumpToPlusVX", n[2], BitAnd(word, 4095))
                         ELSE OpAddr("JumpToPlusV0", BitAnd(word, 4095)))
    ELSE IF n[1] = 12 THEN OpXValue("SetVXToVXAndRandomNumber", n[2], BitAnd(word, 255))
    ELSE IF n[1] = 13 THEN OpXYHeight("DrawSpriteAt", n[2], n[3], n[4])
    ELSE IF n[1] = 14 /\ n[3] = 9 /\ n[4] = 14 THEN
        OpX("SkipNextInstructionIfKeyInVXPressed", n[2])
    ELSE IF n[1] = 14 /\ n[3] = 10 /\ n[4] = 1 THEN
        OpX("SkipNextInstructionIfKeyInVXNotPressed", n[2])
    ELSE IF n[1] = 15 /\ n[3] = 0 /\ n[4] = 7 THEN OpX("SetVXToDelayTimer", n[2])
    ELSE IF n[1] = 15 /\ n[3] = 0 /\ n[4] = 10 THEN OpX("AwaitKeyPress", n[2])
    ELSE IF n[1] = 15 /\ n[3] = 1 /\ n[4] = 5 THEN OpX("SetDelayTimerToVX", n[2])
    ELSE IF n[1] = 15 /\ n[3] = 1 /\ n[4] = 8 THEN OpX("SetSoundTimerToVX", n[2])
    ELSE IF n[1] = 15 /\ n[3] = 1 /\ n[4] = 14 THEN OpX("AddVXToI", n[2])
    ELSE IF n[1] = 15 /\ n[3] = 2 /\ n[4] = 9 THEN
        OpX("SetIToSpriteLocationForCharacterInVX", n[2])
    ELSE IF n[1] = 15 /\ n[3] = 3 /\ n[4] = 3 THEN OpX("StoreBinaryCodedDecimalOfVX", n[2])
    ELSE IF n[1] = 15 /\ n[3] = 5 /\ n[4] = 5 THEN OpX("StoreFromV0ToVX", n[2])
    ELSE IF n[1] = 15 /\ n[3] = 6 /\ n[4] = 5 THEN OpX("FillFromV0ToVX", n[2])
    \* Leave this arm as the last one as it could match any 0x00 opcode
    ELSE IF n[1] = 0 THEN OpAddr("CallMachineCodeRoutineAt", BitAnd(word, 4095))
    ELSE Unsupported

\* Cpu::decode (cpu.rs), the decoder tick() calls: no quirk flag, shifts carry x only
decode(word) == DecodeArms(word, get_nibbles(word), TRUE, FALSE)

\* Operation::decode (operation.rs), the pure decoder parameterised by the quirk flag
Operation_decode(word, quirk) == DecodeArms(word, get_nibbles(word), FALSE, quirk)

-----------------------------------------------------------------------------
(* The Cpu value: the fields of the struct, and the panic that ended the run *)

\* Both arrays are created zero-filled ([0x00; N]) and are mostly zero: each is
\* held as the function from the indices of its non-zero cells to their values.
\* Peek is the array read a[at], Poke the array write a[at] = byte; the bounds
\* checks of the indexing are stated where the code indexes.
Zeroed == << >>

Peek(array, at) == IF at \in DOMAIN array THEN array[at] ELSE 0

Poke(array, at, byte) ==
    IF byte = 0 THEN [c \in DOMAIN array \ {at} |-> array[c]]
    ELSE [c \in DOMAIN array \cup {at} |-> IF c = at THEN byte ELSE array[c]]

Self == [ram |-> ram, pc |-> pc, i |-> i, stack |-> stack, v |-> v,
         vram |-> vram, vram_changed |-> vram_changed, panic |-> panic]

Panicked(self, message) == [self EXCEPT !.panic = message]

\* a u16 `a + b`: a debug build panics on overflow, a release build wraps
AddU16(a, b, checks) ==
    IF a + b < U16 THEN [value |-> a + b, overflow |-> FALSE]
    ELSE [value |-> (a + b) % U16, overflow |-> checks]

\* Cpu::new: the state after construction from a ROM image
new(image) ==
    LET blank == [ram          |-> Zeroed,
                  pc           |-> PROGRAM_START,
                  i            |-> 0,
                  stack        |-> << >>,
                  v            |-> [r \in 0..15 |-> 0],
                  vram         |-> Zeroed,
                  vram_changed |-> FALSE,
                  panic        |-> NoPanic]
    IN  IF Len(image) > RAM_SIZE THEN Panicked(blank, PanicRomSize)
        \* the copy loop writes ram[0x200 + k]; the index panics once it reaches 4096
        ELSE IF PROGRAM_START + Len(image) > RAM_SIZE THEN Panicked(blank, PanicIndex)
        ELSE [blank EXCEPT !.ram =
                 [a \in {PROGRAM_START + k - 1 : k \in {k \in 1..Len(image) : image[k] # 0}}
                     |-> image[a - PROGRAM_START + 1]]]

\* Cpu::fetch: the big-endian word at pc, and pc advanced by 2
fetch(self) ==
    IF self.pc >= RAM_SIZE \/ self.pc + 1 >= RAM_SIZE
    THEN [self |-> Panicked(self, PanicIndex), word |-> 0]
    ELSE [self |-> [self EXCEPT !.pc = self.pc + 2],
          word |-> BitOr((Peek(self.ram, self.pc) * 256) % U16, Peek(self.ram, self.pc + 1))]

-----------------------------------------------------------------------------
(* Cpu::execute, one operator per arm of the match *)

CallMachineCodeRoutineAt(self, address) == self

\* (a variant that forgets to mark the display as changed)
ClearScreen_NotMarked(self) == [self EXCEPT !.vram = Zeroed]

ClearScreen(self) ==
    [self EXCEPT !.vram = Zeroed, !.vram_changed = TRUE]

\* (a variant that takes the oldest address instead of the last one)
ReturnFromSubroutine_Oldest(self) ==
    IF self.stack = << >> THEN Panicked(self, PanicEmptyStack)
    ELSE [self EXCEPT !.pc = self.stack[1], !.stack = Tail(self.stack)]

ReturnFromSubroutine(self) ==
    IF self.stack = << >> THEN Panicked(self, PanicEmptyStack)
    ELSE [self EXCEPT !.pc = self.stack[Len(self.stack)],
                      !.stack = SubSeq(self.stack, 1, Len(self.stack) - 1)]

JumpTo(self, address) == [self EXCEPT !.pc = address]

CallSubroutineAt(self, address) ==
    [self EXCEPT !.stack = Append(self.stack, self.pc), !.pc = address]

SkipNextInstructionIfVXEquals(self, x, value) ==
    IF self.v[x] = value THEN [self EXCEPT !.pc = self.pc + 2] ELSE self

SkipNextInstructionIfVXNotEquals(self, x, value) ==
    IF self.v[x] # value THEN [self EXCEPT !.pc = self.pc + 2] ELSE self

SkipNextInstructionIfVXEqualsVY(self, x, y) ==
    IF self.v[x] = self.v[y] THEN [self EXCEPT !.pc = self.pc + 2] ELSE self

SetVXTo(self, x, value) == [self EXCEPT !.v[x] = value]

\* (a variant that records the carry in v[0x0F], as AddVYToVX does)
AddToVX_WithCarry(self, x, value) ==
    LET r == overflowing_add(self.v[x], value)
        s1 == [self EXCEPT !.v[x] = r[1]]
    IN  [s1 EXCEPT !.v[15] = IF r[2] THEN 1 ELSE 0]

AddToVX(self, x, value) == [self EXCEPT !.v[x] = overflowing_add(self.v[x], value)[1]]

SetVXToVY(self, x, y) == [self EXCEPT !.v[x] = self.v[y]]

\* (a variant that also resets v[0x0F], as the COSMAC VIP did)
SetVXToVXOrVY_FlagReset(self, x, y) ==
    [self EXCEPT !.v[x] = BitOr(self.v[x], self.v[y]), !.v[15] = 0]

SetVXToVXOrVY(self, x, y) == [self EXCEPT !.v[x] = BitOr(self.v[x], self.v[y])]

SetVXToVXAndVY(self, x, y) == [self EXCEPT !.v[x] = BitAnd(self.v[x], self.v[y])]

SetVXToVXXorVY(self, x, y) == [self EXCEPT !.v[x] = BitXor(self.v[x], self.v[y])]

\* (a variant that writes the flag before the sum)
AddVYToVX_FlagFirst(self, x, y) ==
    LET r == overflowing_add(self.v[x], self.v[y])
        s1 == [self EXCEPT !.v[15] = IF r[2] THEN 1 ELSE 0]
    IN  [s1 EXCEPT !.v[x] = r[1]]

\* v[x] is written first, v[0x0F] second: with x = 15 the flag is what remains
AddVYToVX(self, x, y) ==
    LET r == overflowing_add(self.v[x], self.v[y])
        s1 == [self EXCEPT !.v[x] = r[1]]
    IN  [s1 EXCEPT !.v[15] = IF r[2] THEN 1 ELSE 0]

SubtractVYFromVX(self, x, y) ==
    LET r == overflowing_sub(self.v[x], self.v[y])
        s1 == [self EXCEPT !.v[x] = r[1]]
    IN  [s1 EXCEPT !.v[15] = IF r[2] THEN 0 ELSE 1]

\* v[0x0F] is written first, then v[x] is read again and shifted
RightShiftVX(self, x) ==
    LET s1 == [self EXCEPT !.v[15] = BitAnd(self.v[x], 1)]
    IN  [s1 EXCEPT !.v[x] = Shr(s1.v[x], 1)]

LeftShiftVX(self, x) ==
    LET s1 == [self EXCEPT !.v[15] = Shr(self.v[x], 3)]
    IN  [s1 EXCEPT !.v[x] = Shl8(s1.v[x], 1)]

\* (a variant with the operands of 8XY5: VX - VY)
SubtractVXFromVY_NotSwapped(self, x, y) ==
    LET r == overflowing_sub(self.v[x], self.v[y])
        s1 == [self EXCEPT !.v[x] = r[1]]
    IN  [s1 EXCEPT !.v[15] = IF r[2] THEN 0 ELSE 1]

SubtractVXFromVY(self, x, y) ==
    LET r == overflowing_sub(self.v[y], self.v[x])
        s1 == [self EXCEPT !.v[x] = r[1]]
    IN  [s1 EXCEPT !.v[15] = IF r[2] THEN 0 ELSE 1]

SkipNextInstructionIfVXNotEqualsVY(self, x, y) ==
    IF self.v[x] # self.v[y] THEN [self EXCEPT !.pc = self.pc + 2] ELSE self

SetITo(self, address) == [self EXCEPT !.i = address]

JumpToPlusV0(self, address) == [self EXCEPT !.pc = address + self.v[0]]

SetVXToVXAndRandomNumber(self, x, value, random) ==
    [self EXCEPT !.v[x] = BitAnd(random, value)]

\* (a variant that assigns the collision of each bit to v[0x0F] instead of OR-ing it in)
RECURSIVE DrawBits_LastCollision(_, _, _, _, _)
DrawBits_LastCollision(self, sprite_row, col, row_y, bit) ==
    IF bit >= 8 THEN self
    ELSE LET pixel == BitAnd(Shr(sprite_row, 7 - bit), 1)
             screen_position == (row_y * SCREEN_HEIGHT) + col
             cell == Peek(self.vram, screen_position)
             s1 == [self EXCEPT
                      !.v[15] = BitAnd(pixel, cell),
                      !.vram = Poke(self.vram, screen_position, BitXor(cell, pixel))]
         IN  IF col = SCREEN_WIDTH - 1 THEN s1
             ELSE DrawBits_LastCollision(s1, sprite_row, col + 1, row_y, bit + 1)

\* the inner loop of DrawSpriteAt: the 8 bits of one sprite row, from column `col`
RECURSIVE DrawBits(_, _, _, _, _)
DrawBits(self, sprite_row, col, row_y, bit) ==
    IF bit >= 8 THEN self
    ELSE LET pixel == BitAnd(Shr(sprite_row, 7 - bit), 1)
             screen_position == (row_y * SCREEN_HEIGHT) + col
             cell == Peek(self.vram, screen_position)
             s1 == [self EXCEPT
                      !.v[15] = BitOr(self.v[15], BitAnd(pixel, cell)),
                      !.vram = Poke(self.vram, screen_position, BitXor(cell, pixel))]
         IN  IF col = SCREEN_WIDTH - 1 THEN s1
             ELSE DrawBits(s1, sprite_row, col + 1, row_y, bit + 1)

\* the outer loop of DrawSpriteAt: v[x] is read again at every row
RECURSIVE DrawRows(_, _, _, _, _, _)
DrawRows(self, x, row_y, row, height, checks) ==
    IF row >= height THEN self
    ELSE LET col == self.v[x] % SCREEN_WIDTH
             address == AddU16(self.i, row, checks)
         IN  IF address.overflow THEN Panicked(self, PanicOverflow)
             ELSE IF address.value >= RAM_SIZE THEN Panicked(self, PanicIndex)
             ELSE LET s1 == DrawBits(self, Peek(self.ram, address.value), col, row_y, 0)
                  IN  IF row_y = SCREEN_HEIGHT - 1 THEN s1
                      ELSE DrawRows(s1, x, row_y + 1, row + 1, height, checks)

\* (a variant that marks the display as changed only when a cell has changed)
DrawSpriteAt_MarkedIfChanged(self, x, y, height, checks) ==
    LET row_y == self.v[y] % SCREEN_HEIGHT
        s1 == [self EXCEPT !.v[15] = 0]
        s2 == DrawRows(s1, x, row_y, 0, height, checks)
    IN  IF s2.panic # NoPanic \/ s2.vram = self.vram THEN s2
        ELSE [s2 EXCEPT !.vram_changed = TRUE]

DrawSpriteAt(self, x, y, height, checks) ==
    LET row_y == self.v[y] % SCREEN_HEIGHT
        s1 == [self EXCEPT !.v[15] = 0]
        s2 == DrawRows(s1, x, row_y, 0, height, checks)
    IN  IF s2.panic # NoPanic THEN s2 ELSE [s2 EXCEPT !.vram_changed = TRUE]

\* the arms whose body is unimplemented!()
SkipNextInstructionIfKeyInVXPressed(self, x) == Panicked(self, PanicUnimplemented)

SkipNextInstructionIfKeyInVXNotPressed(self, x) == Panicked(self, PanicUnimplemented)

SetVXToDelayTimer(self, x) == Panicked(self, PanicUnimplemented)

AwaitKeyPress(self, x) == Panicked(self, PanicUnimplemented)

SetDelayTimerToVX(self, x) == Panicked(self, PanicUnimplemented)

SetSoundTimerToVX(self, x) == Panicked(self, PanicUnimplemented)

SetIToSpriteLocationForCharacterInVX(self, x) == Panicked(self, PanicUnimplemented)

AddVXToI(self, x, checks) ==
    LET sum == AddU16(self.i, self.v[x], checks)
    IN  IF sum.overflow THEN Panicked(self, PanicOverflow)
        ELSE [self EXCEPT !.i = sum.value]

\* (a variant whose tens digit is n / 10, not reduced below 10)
StoreBinaryCodedDecimalOfVX_TensNotReduced(self, x) ==
    LET n == self.v[x]
        at == self.i
        s1 == [self EXCEPT !.ram = Poke(self.ram, at, n \div 100)]
        s2 == [s1 EXCEPT !.ram = Poke(s1.ram, at + 1, n \div 10)]
    IN  IF at >= RAM_SIZE THEN Panicked(self, PanicIndex)
        ELSE IF at + 1 >= RAM_SIZE THEN Panicked(s1, PanicIndex)
        ELSE IF at + 2 >= RAM_SIZE THEN Panicked(s2, PanicIndex)
        ELSE [s2 EXCEPT !.ram = Poke(s2.ram, at + 2, n % 10)]

\* the three cells are written in order; an index past the end of ram panics
StoreBinaryCodedDecimalOfVX(self, x) ==
    LET n == self.v[x]
        at == self.i
        s1 == [self EXCEPT !.ram = Poke(self.ram, at, n \div 100)]
        s2 == [s1 EXCEPT !.ram = Poke(s1.ram, at + 1, (n % 100) \div 10)]
    IN  IF at >= RAM_SIZE THEN Panicked(self, PanicIndex)
        ELSE IF at + 1 >= RAM_SIZE THEN Panicked(s1, PanicIndex)
        ELSE IF at + 2 >= RAM_SIZE THEN Panicked(s2, PanicIndex)
        ELSE [s2 EXCEPT !.ram = Poke(s2.ram, at + 2, n % 10)]

\* for n in 0..=x { ram[n] = v[n] }
RECURSIVE StoreLoop(_, _, _)
StoreLoop(self, n, x) ==
    IF n > x THEN self
    ELSE StoreLoop([self EXCEPT !.ram = Poke(self.ram, n, self.v[n])], n + 1, x)

\* for n in 0..=x { v[n] = ram[n] }
RECURSIVE FillLoop(_, _, _)
FillLoop(self, n, x) ==
    IF n > x THEN self
    ELSE FillLoop([self EXCEPT !.v[n] = Peek(self.ram, n)], n + 1, x)

\* the loop, then i += 1 + x
StoreFromV0ToVX(self, x, checks) ==
    LET s1 == StoreLoop(self, 0, x)
        sum == AddU16(self.i, 1 + x, checks)
    IN  IF sum.overflow THEN Panicked(s1, PanicOverflow)
        ELSE [s1 EXCEPT !.i = sum.value]

FillFromV0ToVX(self, x, checks) ==
    LET s1 == FillLoop(self, 0, x)
        sum == AddU16(self.i, 1 + x, checks)
    IN  IF sum.overflow THEN Panicked(s1, PanicOverflow)
        ELSE [s1 EXCEPT !.i = sum.value]

\* Cpu::execute: the match on the decoded operation
execute(self, op, random, checks) ==
    CASE op.kind = "CallMachineCodeRoutineAt" -> CallMachineCodeRoutineAt(self, op.address)
      [] op.kind = "ClearScreen" -> ClearScreen(self)
      [] op.kind = "ReturnFromSubroutine" -> ReturnFromSubroutine(self)
      [] op.kind = "JumpTo" -> JumpTo(self, op.address)
      [] op.kind = "CallSubroutineAt" -> CallSubroutineAt(self, op.address)
      [] op.kind = "SkipNextInstructionIfVXEquals" ->
            SkipNextInstructionIfVXEquals(self, op.x, op.value)
      [] op.kind = "SkipNextInstructionIfVXNotEquals" ->
            SkipNextInstructionIfVXNotEquals(self, op.x, op.value)
      [] op.kind = "SkipNextInstructionIfVXEqualsVY" ->
            SkipNextInstructionIfVXEqualsVY(self, op.x, op.y)
      [] op.kind = "SetVXTo" -> SetVXTo(self, op.x, op.value)
      [] op.kind = "AddToVX" -> AddToVX(self, op.x, op.value)
      [] op.kind = "SetVXToVY" -> SetVXToVY(self, op.x, op.y)
      [] op.kind = "SetVXToVXOrVY" -> SetVXToVXOrVY(self, op.x, op.y)
      [] op.kind = "SetVXToVXAndVY" -> SetVXToVXAndVY(self, op.x, op.y)
      [] op.kind = "SetVXToVXXorVY" -> SetVXToVXXorVY(self, op.x, op.y)
      [] op.kind = "AddVYToVX" -> AddVYToVX(self, op.x, op.y)
      [] op.kind = "SubtractVYFromVX" -> SubtractVYFromVX(self, op.x, op.y)
      [] op.kind = "RightShiftVX" -> RightShiftVX(self, op.x)
      [] op.kind = "LeftShiftVX" -> LeftShiftVX(self, op.x)
      [] op.kind = "SubtractVXFromVY" -> SubtractVXFromVY(self, op.x, op.y)
      [] op.kind = "SkipNextInstructionIfVXNotEqualsVY" ->
            SkipNextInstructionIfVXNotEqualsVY(self, op.x, op.y)
      [] op.kind = "SetITo" -> SetITo(self, op.address)
      [] op.kind = "JumpToPlusV0" -> JumpToPlusV0(self, op.address)
      [] op.kind = "SetVXToVXAndRandomNumber" ->
            SetVXToVXAndRandomNumber(self, op.x, op.value, random)
      [] op.kind = "DrawSpriteAt" -> DrawSpriteAt(self, op.x, op.y, op.height, checks)
      [] op.kind = "SkipNextInstructionIfKeyInVXPressed" ->
            SkipNextInstructionIfKeyInVXPressed(self, op.x)
      [] op.kind = "SkipNextInstructionIfKeyInVXNotPressed" ->
            SkipNextInstructionIfKeyInVXNotPressed(self, op.x)
      [] op.kind = "SetVXToDelayTimer" -> SetVXToDelayTimer(self, op.x)
      [] op.kind = "AwaitKeyPress" -> AwaitKeyPress(self, op.x)
      [] op.kind = "SetDelayTimerToVX" -> SetDelayTimerToVX(self, op.x)
      [] op.kind = "SetSoundTimerToVX" -> SetSoundTimerToVX(self, op.x)
      [] op.kind = "AddVXToI" -> AddVXToI(self, op.x, checks)
      [] op.kind = "SetIToSpriteLocationForCharacterInVX" ->
            SetIToSpriteLocationForCharacterInVX(self, op.x)
      [] op.kind = "StoreBinaryCodedDecimalOfVX" -> StoreBinaryCodedDecimalOfVX(self, op.x)
      [] op.kind = "StoreFromV0ToVX" -> StoreFromV0ToVX(self, op.x, checks)
      [] op.kind = "FillFromV0ToVX" -> FillFromV0ToVX(self, op.x, checks)

-----------------------------------------------------------------------------
(* The actions *)

\* what a tick starts from (the Cpu's fields), and the operation the tick before it executed
Snapshot == [ram |-> ram, pc |-> pc, i |-> i, stack |-> stack, v |-> v, vram |-> vram,
             vram_changed |-> vram_changed, operation |-> operation]

Remember(h) == SubSeq(<<Snapshot>> \o h, 1, IF Len(h) < HistoryLen THEN Len(h) + 1 ELSE HistoryLen)

\* the bytes rand::random() can return where the operation asks for one
RandomBytes(op) == IF op.kind = "SetVXToVXAndRandomNumber" THEN 0..255 ELSE {0}

\* Cpu::tick: fetch, decode, execute
tick(self, random, checks) ==
    LET f == fetch(self)
        op == decode(f.word)
    IN  IF f.self.panic # NoPanic THEN [self |-> f.self, word |-> instruction, op |-> operation]
        ELSE IF op = Unsupported
             THEN [self |-> Panicked(f.self, PanicUnsupported), word |-> f.word, op |-> op]
        ELSE [self |-> execute(f.self, op, random, checks), word |-> f.word, op |-> op]

Tick ==
    /\ panic = NoPanic
    /\ Len(stack) < MaxStack
    /\ \E random \in RandomBytes(decode(fetch(Self).word)) :
          \E t \in {tick(Self, random, overflow_checks)} :
              /\ ram' = t.self.ram
              /\ pc' = t.self.pc
              /\ i' = t.self.i
              /\ stack' = t.self.stack
              /\ v' = t.self.v
              /\ vram' = t.self.vram
              /\ vram_changed' = t.self.vram_changed
              /\ panic' = t.self.panic
              /\ instruction' = t.word
              /\ operation' = t.op
              \* the value tick() returns, when it returns
              /\ should_redraw' = IF t.self.panic = NoPanic THEN t.self.vram_changed
                                  ELSE should_redraw
    /\ decoder' = "Cpu::decode"
    /\ history' = Remember(history)
    /\ UNCHANGED << super_chip, overflow_checks, rom, key, input_event >>

\* Cpu::draw: every cell is exported as 0x00 or 0xFF, any other value panics;
\* the dirty flag is cleared
draw(self) ==
    IF \E p \in DOMAIN self.vram : self.vram[p] \notin {0, 1}
    THEN Panicked(self, PanicPixel)
    ELSE [self EXCEPT !.vram_changed = FALSE]

Draw ==
    /\ panic = NoPanic
    /\ vram_changed' = draw(Self).vram_changed
    /\ panic' = draw(Self).panic
    /\ UNCHANGED << ram, pc, i, stack, v, vram, super_chip, overflow_checks,
                    rom, instruction, operation, decoder, history, should_redraw,
                    key, input_event >>

Next == Tick \/ Draw

-----------------------------------------------------------------------------
(* Key events *)

\* (a variant with a mistyped key value in the last entry)
KEY_MAPPING_Mistyped ==
    << <<"Key1", 1>>, <<"Key2", 2>>, <<"Key3", 3>>, <<"Key4", 12>>,
       <<"A", 4>>, <<"Z", 5>>, <<"E", 6>>, <<"R", 13>>,
       <<"Q", 7>>, <<"S", 8>>, <<"D", 9>>, <<"F", 14>>,
       <<"W", 10>>, <<"X", 0>>, <<"C", 11>>, <<"V", 31>> >>

\* KEY_MAPPING: the physical keys and the logical key of each, in the array's order
KEY_MAPPING ==
    << <<"Key1", 1>>, <<"Key2", 2>>, <<"Key3", 3>>, <<"Key4", 12>>,
       <<"A", 4>>, <<"Z", 5>>, <<"E", 6>>, <<"R", 13>>,
       <<"Q", 7>>, <<"S", 8>>, <<"D", 9>>, <<"F", 14>>,
       <<"W", 10>>, <<"X", 0>>, <<"C", 11>>, <<"V", 15>> >>

\* the keys of the keyboard: the mapped ones and one that is not mapped
VirtualKeyCodes == { KEY_MAPPING[n][1] : n \in 1..Len(KEY_MAPPING) } \cup {"Space"}

\* At most this many keys go down or up between two updates of the input helper.
MaxKeys == 2

\* what one update of the input helper can hold: the keys pressed and the keys released
RECURSIVE KeySets(_)
KeySets(n) ==
    IF n = 0 THEN {{}}
    ELSE KeySets(n - 1) \cup { ks \cup {k} : ks \in KeySets(n - 1), k \in VirtualKeyCodes }

KeyUpdates ==
    { ks \in KeySets(MaxKeys) \X KeySets(MaxKeys) :
        ks[1] \cap ks[2] = {} /\ Cardinality(ks[1]) + Cardinality(ks[2]) <= MaxKeys }

NoKeyEvent == [call |-> "none", held |-> FALSE]

\* Cpu::press_key and Cpu::release_key, on the latch
press_key(latch, logical_key) == << logical_key >>

release_key(latch) == << >>

\* the loop over KEY_MAPPING: the first entry whose key was pressed or released
\* decides the call, and the loop ends there
RECURSIVE FirstKeyEvent(_, _, _, _)
FirstKeyEvent(n, pressed, released, latch) ==
    IF n > Len(KEY_MAPPING) THEN [event |-> NoKeyEvent, latch |-> latch]
    ELSE IF KEY_MAPPING[n][1] \in pressed
         THEN [event |-> [call |-> "press_key", key |-> KEY_MAPPING[n][2],
                          held |-> latch # << >>],
               latch |-> press_key(latch, KEY_MAPPING[n][2])]
    ELSE IF KEY_MAPPING[n][1] \in released
         THEN [event |-> [call |-> "release_key", held |-> latch # << >>],
               latch |-> release_key(latch)]
    ELSE FirstKeyEvent(n + 1, pressed, released, latch)

\* main(): input.update(&event) returned true; at most one call is made
Input ==
    /\ panic = NoPanic
    /\ \E ks \in KeyUpdates :
          \E e \in {FirstKeyEvent(1, ks[1], ks[2], key)} :
              /\ e.event.call # "none"
              /\ key' = e.latch
              /\ input_event' = e.event
    /\ UNCHANGED << ram, pc, i, stack, v, vram, vram_changed, super_chip,
                    overflow_checks, rom, instruction, operation, decoder, history,
                    should_redraw, panic >>

NextInput == Tick \/ Draw \/ Input

\* The decoders as pure functions of a word: Cpu::decode by itself, outside a tick
CpuDecode ==
    /\ decoder = "none"
    /\ operation' = decode(instruction)
    /\ decoder' = "Cpu::decode"
    /\ panic' = IF decode(instruction) = Unsupported THEN PanicUnsupported ELSE panic
    /\ UNCHANGED << ram, pc, i, stack, v, vram, vram_changed, super_chip,
                    overflow_checks, rom, instruction, history, should_redraw,
                    key, input_event >>

\* Operation::decode(instruction, super_chip)
OperationDecode ==
    /\ decoder = "none"
    /\ operation' = Operation_decode(instruction, super_chip)
    /\ decoder' = "Operation::decode"
    /\ panic' = IF Operation_decode(instruction, super_chip) = Unsupported
                THEN PanicUnsupported ELSE panic
    /\ UNCHANGED << ram, pc, i, stack, v, vram, vram_changed, super_chip,
                    overflow_checks, rom, instruction, history, should_redraw,
                    key, input_event >>

NextDecode == CpuDecode \/ OperationDecode

-----------------------------------------------------------------------------
(* ROM images *)

Instr(n1, n2, n3, n4) == n1 * 4096 + n2 * 256 + n3 * 16 + n4

InstrXNN(n1, x, nn) == n1 * 4096 + x * 256 + nn

InstrNNN(n1, nnn) == n1 * 4096 + nnn

\* the image file of a program: two bytes per word, big-endian
Image(words) == [k \in 1..(2 * Len(words)) |->
                    IF k % 2 = 1 THEN words[(k + 1) \div 2] \div 256
                                 ELSE words[k \div 2] % 256]

\* a jump to itself, as the n-th word (from 0) of the image: the program stays there
Halt(n) == InstrNNN(1, PROGRAM_START + 2 * n)

\* main(): the ROM is read, the Cpu constructed from it; the switch and the build
\* are whatever the host was started with
InitFrom(images, quirks, builds, words) ==
    \E image \in images, quirk \in quirks, checks \in builds, word \in words :
        LET c == new(image)
        IN  /\ rom = image
            /\ super_chip = quirk
            /\ overflow_checks = checks
            /\ ram = c.ram
            /\ pc = c.pc
            /\ i = c.i
            /\ stack = c.stack
            /\ v = c.v
            /\ vram = c.vram
            /\ vram_changed = c.vram_changed
            /\ panic = c.panic
            /\ instruction = word
            /\ operation = [kind |-> "None"]
            /\ decoder = "none"
            /\ history = << >>
            /\ should_redraw = FALSE
            /\ key = << >>
            /\ input_event = NoKeyEvent

InitWith(images, quirks, builds) == InitFrom(images, quirks, builds, {0})

Registers == 0..15

\* 8-bit operands around the carry and borrow boundaries
Operands == {0, 1, 127, 128, 255}

\* 6XAA 6YBB 8XYK, then halt: the two-register arithmetic 8XYK on operands AA, BB
AluImages(kinds) ==
    { Image(<< InstrXNN(6, x, a), InstrXNN(6, y, b), Instr(8, x, y, k), Halt(3) >>) :
        x \in Registers, y \in Registers, a \in Operands, b \in Operands, k \in kinds }

InitAdd == InitWith(AluImages({4}), {FALSE}, {FALSE})

SpecAdd == InitAdd /\ [][Next]_vars

InitSub == InitWith(AluImages({5, 7}), {FALSE}, {FALSE})

SpecSub == InitSub /\ [][Next]_vars

\* The deepest chain of nested calls among the images.
MaxNesting == 16

RET == Instr(0, 0, 14, 14)

\* word 0 calls subroutine 1 and word 1 is `after`; subroutine k (words 2k, 2k+1)
\* calls subroutine k+1 and returns; subroutine n (word 2n) only returns.
\* n nested calls are followed by n returns, then `after` runs at 0x202.
CallChain(n, after) ==
    Image([j \in 1..(2 * n + 1) |->
             IF j = 2 THEN after
             ELSE IF j % 2 = 1 /\ j < 2 * n + 1 THEN InstrNNN(2, PROGRAM_START + 2 * (j + 1))
             ELSE RET])

\* the chains of 1..MaxNesting nested calls, halting or returning once more at
\* the end; a lone return; and a subroutine that calls itself without end
StackImages ==
    { CallChain(n, after) : n \in 1..MaxNesting, after \in {Halt(1), RET} }
        \cup { Image(<< RET >>), Image(<< InstrNNN(2, PROGRAM_START) >>) }

InitStack == InitWith(StackImages, BOOLEAN, BOOLEAN)

SpecStack == InitStack /\ [][Next]_vars

\* The X fields of the instruction words that are decoded.
DecodedX == {0, 1, 8, 15}

\* every instruction word whose X field is one of DecodedX
Words == { Instr(n1, x, y, n) : n1 \in 0..15, x \in DecodedX, y \in 0..15, n \in 0..15 }

InitDecode == InitFrom({ << >> }, BOOLEAN, {FALSE}, Words)

SpecDecode == InitDecode /\ [][NextDecode]_vars

\* the words outside the opcode table of operation.rs (the comments of the enum):
\* 5XYN and 9XYN with N # 0, 8XYN with N in 8..D or F, EXNN other than EX9E and
\* EXA1, FXNN other than FX07, FX0A, FX15, FX18, FX1E, FX29, FX33, FX55, FX65
Undocumented(word) ==
    LET n1 == word \div 4096
        nn == word % 256
    IN  \/ n1 \in {5, 9} /\ nn % 16 # 0
        \/ n1 = 8 /\ nn % 16 \in (8..13) \cup {15}
        \/ n1 = 14 /\ nn \notin {158, 161}
        \/ n1 = 15 /\ nn \notin {7, 10, 21, 24, 30, 41, 51, 85, 101}

\* one-instruction programs of a word outside the table
UnsupportedImages == { Image(<< word >>) : word \in { w \in Words : Undocumented(w) } }

InitUnsupported == InitWith(UnsupportedImages, BOOLEAN, {FALSE})

SpecUnsupported == InitUnsupported /\ [][Next]_vars

\* ANNN, 6rNN for r in 0..x (Vr = base + r), FX55, FX65, then halt
BlockImage(x, nnn, base) ==
    Image([j \in 1..(x + 5) |->
             IF j = 1 THEN InstrNNN(10, nnn)
             ELSE IF j <= x + 2 THEN InstrXNN(6, j - 2, (base + j - 2) % U8)
             ELSE IF j = x + 3 THEN InstrXNN(15, x, 85)
             ELSE IF j = x + 4 THEN InstrXNN(15, x, 101)
             ELSE Halt(x + 4)])

BlockImages ==
    { BlockImage(x, nnn, base) : x \in Registers, nnn \in {0, 768, 4095},
                                 base \in {1, 100, 250} }

InitBlock == InitWith(BlockImages, BOOLEAN, BOOLEAN)

SpecBlock == InitBlock /\ [][Next]_vars

\* the address of word n (from 0) of an image
WordAt(n) == PROGRAM_START + 2 * n

\* ANNN 6XAA 6YBB DXYH DXYH, then halt, then the rows of the sprite (word 6 on):
\* the same sprite drawn twice from the same registers
DrawImage(nnn, x, a, y, b, height, sprite) ==
    Image(<< InstrNNN(10, nnn), InstrXNN(6, x, a), InstrXNN(6, y, b),
             Instr(13, x, y, height), Instr(13, x, y, height), Halt(5) >> \o sprite)

\* sprites as words, two rows each: blank, solid, and a pattern
Sprites == { [j \in 1..8 |-> 0], [j \in 1..8 |-> 65535], [j \in 1..8 |-> 33024 + j] }

DrawImages ==
    { DrawImage(nnn, xy[1], a, xy[2], b, height, sprite) :
        nnn \in {WordAt(6), 4095}, xy \in {<<0, 1>>, <<15, 1>>, <<0, 15>>, <<2, 2>>},
        a \in {0, 60, 63, 70}, b \in {0, 30, 31, 33}, height \in {0, 1, 2, 15},
        sprite \in Sprites }

InitDraw == InitWith(DrawImages, {FALSE}, BOOLEAN)

SpecDraw == InitDraw /\ [][Next]_vars

\* 6XNN 7XMM, then halt
ImmediateImages ==
    { Image(<< InstrXNN(6, x, nn), InstrXNN(7, x, mm), Halt(2) >>) :
        x \in Registers, nn \in Operands \cup {5}, mm \in Operands \cup {5} }

InitImmediate == InitWith(ImmediateImages, {FALSE}, {FALSE})

SpecImmediate == InitImmediate /\ [][Next]_vars

\* ANNN 6XAA 6YBB DXYH 00E0 DXYH 00E0, then halt, then the rows of the sprite
\* (word 8 on): the display is cleared after a draw, and again after a second one
ClearImage(nnn, x, a, y, b, height, sprite) ==
    Image(<< InstrNNN(10, nnn), InstrXNN(6, x, a), InstrXNN(6, y, b),
             Instr(13, x, y, height), Instr(0, 0, 14, 0), Instr(13, x, y, height),
             Instr(0, 0, 14, 0), Halt(7) >> \o sprite)

ClearImages ==
    { ClearImage(WordAt(8), 0, a, 1, b, height, sprite) :
        a \in {0, 63, 70}, b \in {0, 31}, height \in {0, 1, 2}, sprite \in Sprites }
        \cup { Image(<< Instr(0, 0, 14, 0), Halt(1) >>) }

InitClear == InitWith(ClearImages, {FALSE}, {FALSE})

SpecClear == InitClear /\ [][Next]_vars

\* 6XNN FX18 (sound timer = VX), 6XNN FX15 FX07 (delay timer = VX, VX = delay
\* timer), each followed by a halt
TimerImages ==
    { Image(<< InstrXNN(6, x, nn), InstrXNN(15, x, 24), Halt(2) >>) :
        x \in Registers, nn \in {0, 1, 2, 255} }
        \cup { Image(<< InstrXNN(6, x, nn), InstrXNN(15, x, 21), InstrXNN(15, x, 7), Halt(3) >>) :
                 x \in Registers, nn \in {0, 1, 2, 255} }

InitTimer == InitWith(TimerImages, {FALSE}, {FALSE})

SpecTimer == InitTimer /\ [][Next]_vars

\* a program that stays where it starts: the ticks go on between the key events
InputImages == { Image(<< Halt(0) >>) }

InitInput == InitWith(InputImages, {FALSE}, {FALSE})

SpecInput == InitInput /\ [][NextInput]_vars

\* bytes to shift: every single bit, none, all, and mixed ones
Shifted == {0, 1, 2, 4, 8, 16, 32, 64, 128, 85, 170, 255}

\* 6YBB 6XAA 8XYK, then halt: the shift 8XY6 or 8XYE of VX = AA with VY = BB
ShiftImages ==
    { Image(<< InstrXNN(6, y, b), InstrXNN(6, x, a), Instr(8, x, y, k), Halt(3) >>) :
        x \in {0, 1, 14, 15}, y \in {0, 1, 15}, a \in Shifted, b \in {0, 4, 129},
        k \in {6, 14} }

InitShift == InitWith(ShiftImages, BOOLEAN, {FALSE})

SpecShift == InitShift /\ [][Next]_vars

\* 60AA 6XBB BXNN with XNN the address of word 3, then halts at words 3..8:
\* the jump with offset lands on one of the halts, whichever register it adds
JumpImages ==
    { Image(<< InstrXNN(6, 0, a), InstrXNN(6, 2, b), InstrNNN(11, WordAt(3)),
               Halt(3), Halt(4), Halt(5), Halt(6), Halt(7), Halt(8) >>) :
        a \in {0, 2, 4, 10}, b \in {0, 2, 6, 8} }
        \cup { Image(<< InstrXNN(6, 0, a), InstrXNN(6, 2, b), InstrNNN(11, WordAt(3)),
                       InstrNNN(11, WordAt(5)), Halt(4), Halt(5), Halt(6), Halt(7),
                       Halt(8), Halt(9), Halt(10) >>) :
                 a \in {0, 4}, b \in {0, 2} }

InitJump == InitWith(JumpImages, BOOLEAN, BOOLEAN)

SpecJump == InitJump /\ [][Next]_vars

\* ANNN 6XAA 6YBB DXYH 6FCC 6XDD DXYH, then halt, then the rows of the sprite
\* (word 8 on): the second draw starts from V15 = CC and from column DD, on
\* what the first draw left
CollideImage(x, a, y, b, c, d, height, sprite) ==
    Image(<< InstrNNN(10, WordAt(8)), InstrXNN(6, x, a), InstrXNN(6, y, b),
             Instr(13, x, y, height), InstrXNN(6, 15, c), InstrXNN(6, x, d),
             Instr(13, x, y, height), Halt(7) >> \o sprite)

CollideImages ==
    { CollideImage(xy[1], a, xy[2], b, c, d, height, sprite) :
        xy \in {<<0, 1>>, <<15, 1>>, <<0, 15>>}, a \in {0, 10, 63}, b \in {0, 5, 31},
        c \in {0, 1, 7}, d \in {0, 4, 10, 63}, height \in {1, 2}, sprite \in Sprites }

InitCollide == InitWith(CollideImages, {FALSE}, {FALSE})

SpecCollide == InitCollide /\ [][Next]_vars

\* ANNN 61VV F11E (I = NNN + VV, from the end of the memory on), then one
\* instruction that reads or writes memory at I, then halt
IndexImages ==
    { Image(<< InstrNNN(10, nnn), InstrXNN(6, 1, vv), InstrXNN(15, 1, 30), word, Halt(4) >>) :
        nnn \in {4092, 4093, 4094, 4095}, vv \in {0, 1, 2, 255},
        word \in { Instr(13, 0, 0, 1), Instr(13, 0, 0, 2), InstrXNN(15, 0, 51),
                   InstrXNN(15, 0, 85), InstrXNN(15, 2, 101) } }

InitIndex == InitWith(IndexImages, {FALSE}, BOOLEAN)

SpecIndex == InitIndex /\ [][Next]_vars

\* a jump or a call to the last addresses of the memory, or 60VV BNNN to them
\* plus V0: execution goes on from there over the zero-filled cells
PcImages ==
    { Image(<< InstrNNN(n1, nnn) >>) : n1 \in {1, 2}, nnn \in 4088..4095 }
        \cup { Image(<< InstrXNN(6, 0, vv), InstrNNN(11, nnn) >>) :
                 vv \in {0, 1, 255}, nnn \in 4088..4095 }
        \cup { Image(<< InstrXNN(6, 0, vv), InstrXNN(3, 0, 1), InstrNNN(1, 4092),
                       InstrNNN(1, 4090) >>) : vv \in {0, 1} }

InitPc == InitWith(PcImages, {FALSE}, BOOLEAN)

SpecPc == InitPc /\ [][Next]_vars

\* 6XAA 6YBB, one instruction of the skip family, then two halts: the skip
\* lands on the first or on the second
SkipImages ==
    { Image(<< InstrXNN(6, xy[1], a), InstrXNN(6, xy[2], b), word, Halt(3), Halt(4) >>) :
        xy \in {<<0, 1>>, <<1, 15>>, <<15, 0>>, <<2, 2>>}, a \in {0, 1, 255}, b \in {0, 1, 255},
        word \in UNION { { InstrXNN(3, x, 1), InstrXNN(4, x, 1), Instr(5, x, y, 0),
                           Instr(9, x, y, 0), InstrXNN(14, x, 158), InstrXNN(14, x, 161) } :
                         x \in {0, 1, 15}, y \in {0, 1, 2} } }

InitSkip == InitWith(SkipImages, {FALSE}, {FALSE})

SpecSkip == InitSkip /\ [][Next]_vars

\* 6XNN FX0A, then halt: the wait for a key, with key events before and during it
KeyWaitImages ==
    { Image(<< InstrXNN(6, x, nn), InstrXNN(15, x, 10), Halt(2) >>) :
        x \in {0, 1, 15}, nn \in {0, 200} }

InitKeyWait == InitWith(KeyWaitImages, {FALSE}, {FALSE})

SpecKeyWait == InitKeyWait /\ [][NextInput]_vars

\* ANNN 6XNN FX33, then halt: the BCD store of every byte, at the start, in the
\* middle and at the last three cells of the memory
BcdImages ==
    { Image(<< InstrNNN(10, nnn), InstrXNN(6, x, n), InstrXNN(15, x, 51), Halt(3) >>) :
        nnn \in {0, 768, 4093}, x \in {0, 7, 15}, n \in 0..(U8 - 1) }

InitBcd == InitWith(BcdImages, {FALSE}, {FALSE})

SpecBcd == InitBcd /\ [][Next]_vars

\* one instruction of every kind the decoder knows, on registers X and Y; the
\* jumps and the call go to words 4..6 of FrameImage
FrameWords(x, y) ==
    { InstrNNN(0, 291), Instr(0, 0, 14, 0), InstrNNN(1, WordAt(5)), InstrNNN(2, WordAt(6)),
      InstrXNN(3, x, 2), InstrXNN(4, x, 2), Instr(5, x, y, 0), InstrXNN(6, x, 9),
      InstrXNN(7, x, 255), Instr(8, x, y, 0), Instr(8, x, y, 1), Instr(8, x, y, 2),
      Instr(8, x, y, 3), Instr(8, x, y, 4), Instr(8, x, y, 5), Instr(8, x, y, 6),
      Instr(8, x, y, 7), Instr(8, x, y, 14), Instr(9, x, y, 0), InstrNNN(10, 768),
      InstrNNN(11, WordAt(4)), InstrXNN(12, x, 15), Instr(13, x, y, 1),
      InstrXNN(14, x, 158), InstrXNN(14, x, 161), InstrXNN(15, x, 7), InstrXNN(15, x, 10),
      InstrXNN(15, x, 21), InstrXNN(15, x, 24), InstrXNN(15, x, 30), InstrXNN(15, x, 41),
      InstrXNN(15, x, 51), InstrXNN(15, x, 85), InstrXNN(15, x, 101) }

\* 6FCC 6XAA 6YBB, the instruction, two halts, a return (the target of the
\* call, which comes back to word 4), a halt
FrameImage(c, x, a, y, b, word) ==
    Image(<< InstrXNN(6, 15, c), InstrXNN(6, x, a), InstrXNN(6, y, b), word,
             Halt(4), Halt(5), RET, Halt(7) >>)

FrameImages ==
    UNION { { FrameImage(c, x, a, y, b, word) : word \in FrameWords(x, y) } :
              c \in {1, 200}, x \in {1, 15}, a \in {2, 255}, y \in {2, 15}, b \in {2, 128} }

InitFrame == InitWith(FrameImages, {FALSE}, {FALSE})

SpecFrame == InitFrame /\ [][Next]_vars

\* The lengths of the ROM images reach this far on either side of a limit.
LoadMargin == 3

\* images of every length around 0, around 4096 - 0x200 and around 4096, filled
\* with jumps to 0x200, or with one such jump and then the bytes 4, 5, 6, ...
LoadLengths ==
    (0..(2 * LoadMargin))
        \cup ((RAM_SIZE - PROGRAM_START - LoadMargin)..(RAM_SIZE - PROGRAM_START + LoadMargin))
        \cup ((RAM_SIZE - LoadMargin)..(RAM_SIZE + LoadMargin))

LoadImages ==
    { [k \in 1..len |-> IF k % 2 = 1 THEN 18 ELSE 0] : len \in LoadLengths }
        \cup { [k \in 1..len |-> IF k = 1 THEN 18 ELSE IF k = 2 THEN 0 ELSE 1 + (k % 255)] :
                 len \in LoadLengths }

InitLoad == InitWith(LoadImages, BOOLEAN, BOOLEAN)

SpecLoad == InitLoad /\ [][Next]_vars

-----------------------------------------------------------------------------
(* Properties *)

\* the last tick executed an operation of this kind and returned
Executed(kind) == panic = NoPanic /\ Len(history) >= 1 /\ operation.kind = kind

\* the registers, I, PC and stack the last tick started from
Before == history[1]

\* C1: after AddVYToVX (8XY4), for every register pair X, Y and every pair of
\* bytes, V15 is 1 if old VX + old VY > 255 and 0 otherwise, and when X is not
\* 15, VX is (old VX + old VY) mod 256.
C1_AddSetsCarry ==
    Executed("AddVYToVX") =>
        LET x == operation.x
            y == operation.y
            sum == Before.v[x] + Before.v[y]
        IN  /\ v[15] = (IF sum > 255 THEN 1 ELSE 0)
            /\ x # 15 => v[x] = sum % 256

\* an addition with X = 15 that overflowed: V15 holds the carry, not the sum
C1_Witness ==
    /\ Executed("AddVYToVX")
    /\ operation.x = 15
    /\ operation.y # 15
    /\ Before.v[15] = 255
    /\ Before.v[operation.y] = 127
    /\ v[15] = 1

\* C2 (as amended): after SubtractVYFromVX (8XY5) V15 is 1 iff old VX >= old VY
\* and, when X is not 15, VX is (old VX - old VY) mod 256; after
\* SubtractVXFromVY (8XY7) V15 is 1 iff old VY >= old VX and, when X is not 15,
\* VX is (old VY - old VX) mod 256.
C2_SubInvertedBorrow ==
    /\ Executed("SubtractVYFromVX") =>
          LET x == operation.x
              y == operation.y
          IN  /\ v[15] = (IF Before.v[x] >= Before.v[y] THEN 1 ELSE 0)
              /\ x # 15 => v[x] = (Before.v[x] - Before.v[y]) % 256
    /\ Executed("SubtractVXFromVY") =>
          LET x == operation.x
              y == operation.y
          IN  /\ v[15] = (IF Before.v[y] >= Before.v[x] THEN 1 ELSE 0)
              /\ x # 15 => v[x] = (Before.v[y] - Before.v[x]) % 256

\* a reverse subtraction that borrowed: 1 - 128 leaves 129 in VX and 0 in V15
C2_Witness ==
    /\ Executed("SubtractVXFromVY")
    /\ operation.x # 15
    /\ operation.y # 15
    /\ Before.v[operation.x] = 128
    /\ Before.v[operation.y] = 1
    /\ v[operation.x] = 129
    /\ v[15] = 0

\* C2 as stated: VX receives the difference for every X, X = 15 included
C2_AsStated ==
    /\ Executed("SubtractVYFromVX") =>
          /\ v[15] = (IF Before.v[operation.x] >= Before.v[operation.y] THEN 1 ELSE 0)
          /\ v[operation.x] = (Before.v[operation.x] - Before.v[operation.y]) % 256
    /\ Executed("SubtractVXFromVY") =>
          /\ v[15] = (IF Before.v[operation.y] >= Before.v[operation.x] THEN 1 ELSE 0)
          /\ v[operation.x] = (Before.v[operation.y] - Before.v[operation.x]) % 256

Last(q) == q[Len(q)]

Front(q) == SubSeq(q, 1, Len(q) - 1)

\* C3: a call pushes the address of the instruction after it and a return pops
\* the last address pushed into PC (LIFO), so that n nested calls followed by n
\* returns (n in 1..16) leave the stack empty and PC at the instruction that
\* follows the first call.
C3_CallReturnBalanced ==
    /\ Executed("CallSubroutineAt") =>
          /\ stack = Append(Before.stack, Before.pc + 2)
          /\ pc = operation.address
    /\ Executed("ReturnFromSubroutine") =>
          /\ pc = Last(Before.stack)
          /\ stack = Front(Before.stack)
    /\ \A n \in 1..MaxNesting :
          (rom = CallChain(n, Halt(1)) /\ Executed("ReturnFromSubroutine")
             /\ Len(Before.stack) = 1)
          => (stack = << >> /\ pc = PROGRAM_START + 2)

\* the sixteenth return of the chain of sixteen nested calls
C3_Witness ==
    /\ rom = CallChain(16, Halt(1))
    /\ Executed("ReturnFromSubroutine")
    /\ Len(history) >= 2
    /\ history[2].operation.kind = "ReturnFromSubroutine"
    /\ stack = << >>
    /\ pc = PROGRAM_START + 2

\* C8: a return on an empty call stack does not abort the host process
C8_UnderflowIsAnErrorValue == panic # PanicEmptyStack

\* C9: the call stack never holds more than 16 return addresses
C9_StackAtMost16 == Len(stack) <= 16

\* the operation the opcode table of operation.rs documents for a word, with
\* X = bits 8-11, Y = bits 4-7, N = bits 0-3, NN = the low byte, NNN = the low
\* 12 bits; shifts(x, y) and bnnn(x, nnn) are what 8XY6/8XYE and BNNN stand for
Documented(word, shift_fields(_, _, _), bnnn(_, _)) ==
    LET n1 == word \div 4096
        x == (word \div 256) % 16
        y == (word \div 16) % 16
        n == word % 16
        nn == word % 256
        nnn == word % 4096
    IN  CASE word = 224 -> [kind |-> "ClearScreen"]
          [] word = 238 -> [kind |-> "ReturnFromSubroutine"]
          [] n1 = 0 /\ word \notin {224, 238} ->
                [kind |-> "CallMachineCodeRoutineAt", address |-> nnn]
          [] n1 = 1 -> [kind |-> "JumpTo", address |-> nnn]
          [] n1 = 2 -> [kind |-> "CallSubroutineAt", address |-> nnn]
          [] n1 = 3 -> [kind |-> "SkipNextInstructionIfVXEquals", x |-> x, value |-> nn]
          [] n1 = 4 -> [kind |-> "SkipNextInstructionIfVXNotEquals", x |-> x, value |-> nn]
          [] n1 = 5 /\ n = 0 -> [kind |-> "SkipNextInstructionIfVXEqualsVY", x |-> x, y |-> y]
          [] n1 = 6 -> [kind |-> "SetVXTo", x |-> x, value |-> nn]
          [] n1 = 7 -> [kind |-> "AddToVX", x |-> x, value |-> nn]
          [] n1 = 8 /\ n = 0 -> [kind |-> "SetVXToVY", x |-> x, y |-> y]
          [] n1 = 8 /\ n = 1 -> [kind |-> "SetVXToVXOrVY", x |-> x, y |-> y]
          [] n1 = 8 /\ n = 2 -> [kind |-> "SetVXToVXAndVY", x |-> x, y |-> y]
          [] n1 = 8 /\ n = 3 -> [kind |-> "SetVXToVXXorVY", x |-> x, y |-> y]
          [] n1 = 8 /\ n = 4 -> [kind |-> "AddVYToVX", x |-> x, y |-> y]
          [] n1 = 8 /\ n = 5 -> [kind |-> "SubtractVYFromVX", x |-> x, y |-> y]
          [] n1 = 8 /\ n = 6 -> shift_fields("RightShiftVX", x, y)
          [] n1 = 8 /\ n = 7 -> [kind |-> "SubtractVXFromVY", x |-> x, y |-> y]
          [] n1 = 8 /\ n = 14 -> shift_fields("LeftShiftVX", x, y)
          [] n1 = 9 /\ n = 0 ->
                [kind |-> "SkipNextInstructionIfVXNotEqualsVY", x |-> x, y |-> y]
          [] n1 = 10 -> [kind |-> "SetITo", address |-> nnn]
          [] n1 = 11 -> bnnn(x, nnn)
          [] n1 = 12 -> [kind |-> "SetVXToVXAndRandomNumber", x |-> x, value |-> nn]
          [] n1 = 13 -> [kind |-> "DrawSpriteAt", x |-> x, y |-> y, height |-> n]
          [] n1 = 14 /\ nn = 158 -> [kind |-> "SkipNextInstructionIfKeyInVXPressed", x |-> x]
          [] n1 = 14 /\ nn = 161 -> [kind |-> "SkipNextInstructionIfKeyInVXNotPressed", x |-> x]
          [] n1 = 15 /\ nn = 7 -> [kind |-> "SetVXToDelayTimer", x |-> x]
          [] n1 = 15 /\ nn = 10 -> [kind |-> "AwaitKeyPress", x |-> x]
          [] n1 = 15 /\ nn = 21 -> [kind |-> "SetDelayTimerToVX", x |-> x]
          [] n1 = 15 /\ nn = 24 -> [kind |-> "SetSoundTimerToVX", x |-> x]
          [] n1 = 15 /\ nn = 30 -> [kind |-> "AddVXToI", x |-> x]
          [] n1 = 15 /\ nn = 41 -> [kind |-> "SetIToSpriteLocationForCharacterInVX", x |-> x]
          [] n1 = 15 /\ nn = 51 -> [kind |-> "StoreBinaryCodedDecimalOfVX", x |-> x]
          [] n1 = 15 /\ nn = 85 -> [kind |-> "StoreFromV0ToVX", x |-> x]
          [] n1 = 15 /\ nn = 101 -> [kind |-> "FillFromV0ToVX", x |-> x]

ShiftXY(kind, x, y) == [kind |-> kind, x |-> x, y |-> y]

ShiftX(kind, x, y) == [kind |-> kind, x |-> x]

JumpPlusV0(x, nnn) == [kind |-> "JumpToPlusV0", address |-> nnn]

JumpPlusVX(x, nnn) == [kind |-> "JumpToPlusVX", x |-> x, address |-> nnn]

C7_DecodeErrorIsAValue == panic # PanicUnsupported

\* the last two ticks executed this operation, one immediately after the other
ExecutedTwice(kind1, kind2) ==
    /\ Executed(kind2)
    /\ Len(history) >= 2
    /\ history[1].operation.kind = kind1

\* C4: FX55 immediately followed by FX65 with the same X restores V0..VX to
\* what they were before the store; I ends where it was in modern mode
\* (--super-chip), and has been advanced by X+1 by each of the two instructions
\* in legacy mode.
C4_StoreThenFillRestores ==
    (ExecutedTwice("StoreFromV0ToVX", "FillFromV0ToVX")
        /\ history[1].operation.x = operation.x) =>
        /\ \A r \in 0..operation.x : v[r] = history[2].v[r]
        /\ super_chip => i = history[2].i
        /\ ~super_chip => i = history[2].i + 2 * (operation.x + 1)

\* C5: on a blank display, drawing a sprite and drawing it again at the same
\* place leaves the display blank again, and V15 = 1 when the sprite had lit
\* a pixel.
C5_DrawTwiceRestores ==
    (ExecutedTwice("DrawSpriteAt", "DrawSpriteAt")
        /\ history[1].operation = operation
        /\ history[2].vram = Zeroed
        /\ history[2].i = history[1].i
        /\ history[2].v[operation.x] % SCREEN_WIDTH = history[1].v[operation.x] % SCREEN_WIDTH
        /\ history[2].v[operation.y] % SCREEN_HEIGHT = history[1].v[operation.y] % SCREEN_HEIGHT)
    =>  /\ vram = Zeroed
        /\ history[1].vram # Zeroed => v[15] = 1

\* C10: the images longer than 4096 - 0x200 bytes are the ones rejected, with
\* the load error; every other image is copied to 0x200.. and PC is 0x200.
C10_LoadRejectsOversized ==
    /\ Len(rom) > RAM_SIZE - PROGRAM_START => panic = PanicRomSize
    /\ (Len(rom) <= RAM_SIZE - PROGRAM_START /\ history = << >>) =>
          /\ panic = NoPanic
          /\ pc = PROGRAM_START
          /\ \A k \in 1..Len(rom) : Peek(ram, PROGRAM_START + k - 1) = rom[k]

\* C11: after 6XNN 7XMM with X other than 15, VX = (NN + MM) mod 256 and V15 is
\* what it was before the two ticks, also when NN + MM > 255; AddToVX (7XNN)
\* changes VX and PC (to the next instruction) and nothing else.
C11_AddImmediateKeepsFlag ==
    /\ (ExecutedTwice("SetVXTo", "AddToVX")
          /\ history[1].operation.x = operation.x /\ operation.x # 15) =>
            /\ v[operation.x] = (history[1].operation.value + operation.value) % U8
            /\ v[15] = history[2].v[15]
    /\ Executed("AddToVX") =>
            /\ \A r \in Registers \ {operation.x} : v[r] = Before.v[r]
            /\ v[operation.x] = (Before.v[operation.x] + operation.value) % U8
            /\ pc = Before.pc + 2
            /\ i = Before.i /\ stack = Before.stack
            /\ ram = Before.ram /\ vram = Before.vram
            /\ vram_changed = Before.vram_changed

C11_Witness ==
    /\ ExecutedTwice("SetVXTo", "AddToVX")
    /\ operation.x = 0
    /\ history[1].operation.value + operation.value > 255
    /\ v[0] = (history[1].operation.value + operation.value) % U8

\* C12: a tick that executes ClearScreen (00E0) leaves every cell of the display
\* 0 whatever it held, returns true (redraw needed), and leaves the registers,
\* I, the stack and the memory as they were.
C12_ClearScreenBlanksAndReports ==
    Executed("ClearScreen") =>
        /\ \A p \in 0..(VRAM_SIZE - 1) : Peek(vram, p) = 0
        /\ should_redraw = TRUE
        /\ v = Before.v /\ i = Before.i /\ stack = Before.stack /\ ram = Before.ram

\* the display held lit cells that had been exported already
C12_Witness ==
    /\ Executed("ClearScreen")
    /\ Before.vram # Zeroed /\ ~Before.vram_changed
    /\ vram = Zeroed /\ should_redraw = TRUE

\* C13: a tick that returns reports true exactly when the dirty flag was set
\* before it or it executed ClearScreen or DrawSpriteAt (whether or not a cell
\* changed), and leaves the flag equal to what it reports; draw() clears the
\* flag, and no other step clears it.
C13_DirtyUntilDrawn ==
    [][ /\ (Tick /\ panic' = NoPanic) =>
              /\ should_redraw' =
                    (vram_changed \/ operation'.kind \in {"ClearScreen", "DrawSpriteAt"})
              /\ vram_changed' = should_redraw'
        /\ (Draw /\ panic' = NoPanic) => ~vram_changed'
        /\ (vram_changed /\ ~vram_changed') => Draw
      ]_vars

\* a sprite drawn after an export changed no cell, and the tick reported true
C13_Witness ==
    /\ Executed("DrawSpriteAt")
    /\ ~Before.vram_changed /\ vram = Before.vram
    /\ should_redraw = TRUE /\ vram_changed

\* C14: the sound timer can be set to 1 and the ticks that follow report the
\* beep once per elapsed 1/60 s: the tick that executes FX18 (sound timer = VX)
\* returns its report to the host, and so does every tick after it.
C14_SoundTimerTickReports ==
    operation.kind = "SetSoundTimerToVX" => panic = NoPanic

\* C15: the input latch holds at most one key, a key in 0..15; it holds the
\* key of the last press_key call when that was the last call, and is empty
\* after a release_key call and before any call: a press replaces the key held.
C15_LatchHoldsLastPress ==
    /\ Len(key) <= 1
    /\ \A n \in 1..Len(key) : key[n] \in 0..15
    /\ input_event.call = "press_key" => key = << input_event.key >>
    /\ input_event.call \in {"release_key", "none"} => key = << >>

\* a press while another key was held
C15_Witness ==
    /\ input_event.call = "press_key"
    /\ input_event.held
    /\ key = << 15 >>
    /\ Len(history) >= 1

\* the Y field of the instruction the last tick fetched
FetchedY == (instruction \div 16) % 16

\* C16: in both quirk modes, after a right shift (8XY6) of VX, X other than
\* 15, V15 is bit 0 of the byte VX held, and after a left shift (8XYE) V15 is
\* bit 7 of that byte: V15 is 0 or 1 after a shift.
C16_ShiftFlagIsBitShiftedOut ==
    /\ (Executed("RightShiftVX") /\ operation.x # 15) =>
            v[15] = Before.v[operation.x] % 2
    /\ (Executed("LeftShiftVX") /\ operation.x # 15) =>
            v[15] = Before.v[operation.x] \div 128
    /\ (Executed("RightShiftVX") \/ Executed("LeftShiftVX")) => v[15] \in {0, 1}

\* C17: in legacy mode (no --super-chip) a shift 8XY6 or 8XYE leaves in VX the
\* byte VY held, shifted by one bit, and VY as it was; in modern mode
\* (--super-chip) it leaves in VX the byte VX held, shifted by one bit.
\* (X, Y other than 15, where the flag is written.)
C17_ShiftHonoursQuirk ==
    \A right \in BOOLEAN :
        (/\ Executed(IF right THEN "RightShiftVX" ELSE "LeftShiftVX")
         /\ operation.x # 15 /\ FetchedY # 15) =>
            LET source == IF super_chip THEN Before.v[operation.x] ELSE Before.v[FetchedY]
            IN  /\ v[operation.x] = IF right THEN source \div 2 ELSE (source * 2) % U8
                /\ (~super_chip /\ FetchedY # operation.x) => v[FetchedY] = Before.v[FetchedY]

\* C18: a tick that fetches BNNN decodes it, in legacy mode (no --super-chip),
\* to JumpToPlusV0 and leaves PC = NNN + V0, and in modern mode (--super-chip)
\* to JumpToPlusVX with X the second nibble and leaves PC = XNN + VX: the
\* switch the machine was constructed with decides at every decode.
C18_JumpOffsetHonoursQuirk ==
    (panic = NoPanic /\ Len(history) >= 1 /\ instruction \div 4096 = 11) =>
        LET nnn == instruction % 4096
            x == (instruction \div 256) % 16
        IN  /\ ~super_chip =>
                  /\ operation = OpAddr("JumpToPlusV0", nnn)
                  /\ pc = nnn + Before.v[0]
            /\ super_chip =>
                  /\ operation = OpXAddr("JumpToPlusVX", x, nnn)
                  /\ pc = nnn + Before.v[x]

\* C19: FX55 leaves in memory cell I+n the byte Vn held, for n in 0..X, every
\* other cell and every register as they were; FX65 leaves in Vn the byte of
\* cell I+n, for n in 0..X, the memory and the registers above VX as they
\* were; I ends at I + X + 1 in legacy mode and where it was in modern mode.
\* (For I + X inside the memory.)
C19_BlockAddressedFromI ==
    /\ (Executed("StoreFromV0ToVX") /\ Before.i + operation.x < RAM_SIZE) =>
          /\ \A n \in 0..operation.x : Peek(ram, Before.i + n) = Before.v[n]
          /\ \A a \in (DOMAIN ram \cup DOMAIN Before.ram)
                          \ (Before.i..(Before.i + operation.x)) :
                 Peek(ram, a) = Peek(Before.ram, a)
          /\ v = Before.v
          /\ i = IF super_chip THEN Before.i ELSE Before.i + operation.x + 1
    /\ (Executed("FillFromV0ToVX") /\ Before.i + operation.x < RAM_SIZE) =>
          /\ \A n \in 0..operation.x : v[n] = Peek(Before.ram, Before.i + n)
          /\ \A r \in Registers : r > operation.x => v[r] = Before.v[r]
          /\ ram = Before.ram
          /\ i = IF super_chip THEN Before.i ELSE Before.i + operation.x + 1

\* the bit that DXYN draws on the cell at this column and row: bit b, from the
\* most significant, of the sprite's row r, at column sx + b and row sy + r
SpriteBitAt(memory, at, sx, sy, height, column, row) ==
    IF column - sx \in 0..7 /\ row - sy \in 0..(height - 1)
    THEN BitAnd(Shr(Peek(memory, at + (row - sy)), 7 - (column - sx)), 1)
    ELSE 0

\* C20: DXYN, with sx = VX mod 64 and sy = VY mod 32, leaves every cell of the
\* display, the cell of column c and row r being cell 64 r + c of the buffer
\* draw() exports, XORed with the sprite bit that falls on it: bit b of the
\* byte at I + r on column sx + b, row sy + r, the bits past column 63 or row
\* 31 dropped. (X, Y other than 15, where the flag is written.)
C20_DrawTogglesCoveredCells ==
    (Executed("DrawSpriteAt") /\ operation.x # 15 /\ operation.y # 15) =>
        LET sx == Before.v[operation.x] % SCREEN_WIDTH
            sy == Before.v[operation.y] % SCREEN_HEIGHT
            covered == { SCREEN_WIDTH * r + c :
                           c \in sx..(IF sx + 7 < SCREEN_WIDTH THEN sx + 7 ELSE SCREEN_WIDTH - 1),
                           r \in sy..(IF sy + operation.height - 1 < SCREEN_HEIGHT
                                      THEN sy + operation.height - 1 ELSE SCREEN_HEIGHT - 1) }
        IN  \A p \in covered \cup DOMAIN vram \cup DOMAIN Before.vram :
                Peek(vram, p) =
                    BitXor(Peek(Before.vram, p),
                           SpriteBitAt(Before.ram, Before.i, sx, sy, operation.height,
                                       p % SCREEN_WIDTH, p \div SCREEN_WIDTH))

\* C21: after DXYN, V15 is 1 if the draw turned off a cell of the display (a
\* sprite bit 1 was drawn on a cell that held 1) and 0 if it turned off none,
\* whatever V15 held before.
C21_FlagIsCollision ==
    Executed("DrawSpriteAt") =>
        v[15] = IF \E p \in DOMAIN Before.vram : Before.vram[p] = 1 /\ Peek(vram, p) = 0
                THEN 1 ELSE 0

\* a draw that turned some cells off and others on, started with V15 above 1
C21_Witness ==
    /\ Executed("DrawSpriteAt")
    /\ Before.v[15] > 1
    /\ \E p \in DOMAIN Before.vram : Peek(vram, p) = 0
    /\ \E p \in DOMAIN vram : Peek(Before.vram, p) = 0
    /\ v[15] = 1

\* C22: DXYN draws every row from the column VX mod 64 and the first row at
\* the row VY mod 32, with VX and VY as they were before the instruction, also
\* when X or Y is 15. (Stated for the draws of one row at row 0 of the display,
\* where the row stride plays no part.)
C22_DrawUsesOldRegisters ==
    (/\ Executed("DrawSpriteAt")
     /\ operation.height = 1
     /\ Before.v[operation.y] % SCREEN_HEIGHT = 0) =>
        \A c \in 0..(SCREEN_WIDTH - 1) :
            Peek(vram, c) =
                BitXor(Peek(Before.vram, c),
                       SpriteBitAt(Before.ram, Before.i,
                                   Before.v[operation.x] % SCREEN_WIDTH, 0, 1, c, 0))

\* C23: no instruction reads or writes memory outside 0..4095: a tick that
\* executes a draw, a BCD store, or a block store or load never ends in an
\* index out of bounds, also when I has been raised to 0xFFF or beyond.
C23_AccessesInRange ==
    (/\ Len(history) >= 1
     /\ operation.kind \in {"DrawSpriteAt", "StoreBinaryCodedDecimalOfVX",
                            "StoreFromV0ToVX", "FillFromV0ToVX"}) =>
        panic # PanicIndex

\* C24: while the machine runs, PC and PC + 1 are both memory indices (0..4095).
C24_PcIsFetchable ==
    panic = NoPanic => (pc \in 0..(RAM_SIZE - 1) /\ pc + 1 \in 0..(RAM_SIZE - 1))

\* whether the condition of a skip held when the tick started
SkipCondition(op, registers, latch) ==
    CASE op.kind = "SkipNextInstructionIfVXEquals" -> registers[op.x] = op.value
      [] op.kind = "SkipNextInstructionIfVXNotEquals" -> registers[op.x] # op.value
      [] op.kind = "SkipNextInstructionIfVXEqualsVY" -> registers[op.x] = registers[op.y]
      [] op.kind = "SkipNextInstructionIfVXNotEqualsVY" -> registers[op.x] # registers[op.y]
      [] op.kind = "SkipNextInstructionIfKeyInVXPressed" -> latch = << registers[op.x] >>
      [] op.kind = "SkipNextInstructionIfKeyInVXNotPressed" -> latch # << registers[op.x] >>

SkipFamily ==
    {"SkipNextInstructionIfVXEquals", "SkipNextInstructionIfVXNotEquals",
     "SkipNextInstructionIfVXEqualsVY", "SkipNextInstructionIfVXNotEqualsVY",
     "SkipNextInstructionIfKeyInVXPressed", "SkipNextInstructionIfKeyInVXNotPressed"}

\* C25: a tick that fetches an instruction of the skip family (3XNN, 4XNN,
\* 5XY0, 9XY0, EX9E, EXA1) returns with PC at the instruction's address + 4
\* when its condition held and + 2 when it did not, and with the registers, I,
\* the memory, the stack and the display as they were.
C25_SkipAdvancesPc ==
    [][ (Tick /\ operation'.kind \in SkipFamily) =>
            /\ panic' = NoPanic
            /\ pc' = pc + (IF SkipCondition(operation', v, key) THEN 4 ELSE 2)
            /\ UNCHANGED << v, i, ram, stack, vram, vram_changed >>
      ]_vars

\* C26: a tick that executes FX0A while no key is latched returns with PC back
\* at the FX0A instruction and the registers as they were; a tick that executes
\* it while a key is latched returns with VX = that key and PC at the next
\* instruction.
C26_KeyWaitPolls ==
    [][ (Tick /\ operation'.kind = "AwaitKeyPress") =>
            /\ panic' = NoPanic
            /\ key = << >> => (pc' = pc /\ v' = v)
            /\ key # << >> => (pc' = pc + 2 /\ v' = [v EXCEPT ![operation'.x] = key[1]])
      ]_vars

\* C27: a timer only counts down between two writes, and never below 0.
\* (Stated for the delay timer, the one a program can read back: a tick that
\* executes FX15 or FX07 returns, and the byte FX07 reads is at most the byte
\* the FX15 before it wrote.)
C27_TimersCountDown ==
    /\ operation.kind \in {"SetDelayTimerToVX", "SetVXToDelayTimer"} => panic = NoPanic
    /\ ExecutedTwice("SetDelayTimerToVX", "SetVXToDelayTimer") =>
          v[operation.x] \in 0..history[1].v[history[1].operation.x]

\* C28: FX33 with VX = n and I + 2 <= 4095 leaves n div 100 in cell I,
\* (n div 10) mod 10 in cell I + 1 and n mod 10 in cell I + 2: three decimal
\* digits whose value is n; every other cell, every register and I stay as
\* they were.
C28_BcdDigits ==
    (Executed("StoreBinaryCodedDecimalOfVX") /\ Before.i + 2 <= RAM_SIZE - 1) =>
        LET n == Before.v[operation.x]
            digits == [k \in 0..2 |-> Peek(ram, Before.i + k)]
        IN  /\ digits[0] = n \div 100
            /\ digits[1] = (n \div 10) % 10
            /\ digits[2] = n % 10
            /\ \A k \in 0..2 : digits[k] \in 0..9
            /\ 100 * digits[0] + 10 * digits[1] + digits[2] = n
            /\ \A a \in (DOMAIN ram \cup DOMAIN Before.ram) \ (Before.i..(Before.i + 2)) :
                   Peek(ram, a) = Peek(Before.ram, a)
            /\ v = Before.v /\ i = Before.i

\* 255 stored as 2, 5, 5 in the last three cells of the memory
C28_Witness ==
    /\ Executed("StoreBinaryCodedDecimalOfVX")
    /\ Before.v[operation.x] = 255 /\ Before.i = RAM_SIZE - 3
    /\ Peek(ram, RAM_SIZE - 3) = 2 /\ Peek(ram, RAM_SIZE - 2) = 5 /\ Peek(ram, RAM_SIZE - 1) = 5

\* the operations whose rule sets the flag register: 8XY4, 8XY5, 8XY6, 8XY7,
\* 8XYE and DXYN
FlagDefining ==
    {"AddVYToVX", "SubtractVYFromVX", "RightShiftVX", "SubtractVXFromVY", "LeftShiftVX",
     "DrawSpriteAt"}

\* the operations that write the register VX they name
DestinationX ==
    {"SetVXTo", "AddToVX", "SetVXToVY", "SetVXToVXOrVY", "SetVXToVXAndVY", "SetVXToVXXorVY",
     "SetVXToVXAndRandomNumber", "SetVXToDelayTimer", "AwaitKeyPress"}

FlagMayChange(op) ==
    \/ op.kind \in FlagDefining
    \/ op.kind \in DestinationX /\ op.x = 15
    \/ op.kind = "FillFromV0ToVX" /\ op.x = 15

\* C29: a tick leaves V15 as it was unless the operation it executed is one of
\* 8XY4, 8XY5, 8XY6, 8XY7, 8XYE, DXYN, or writes the register VX it names with
\* X = 15, or is the block load FX65 with X = 15.
C29_FlagOnlyByItsOperations ==
    (Len(history) >= 1 /\ ~FlagMayChange(operation)) => v[15] = Before.v[15]

\* an OR into a register other than V15, with V15 not 0
C29_Witness ==
    /\ Executed("SetVXToVXOrVY")
    /\ operation.x # 15
    /\ Before.v[15] = 200 /\ v[15] = 200
    /\ v[operation.x] # Before.v[operation.x]

====
